---- MODULE Spec2Model ----
(***************************************************************************)
(* Roughenough server core: request validation, the batching loop of      *)
(* Server::process_events, the status tick and shutdown handling           *)
(* (src/src/server.rs), and configuration validation                       *)
(* (src/src/config/mod.rs).                                                *)
(*                                                                         *)
(* One call of process_events is cut into steps at the points where the   *)
(* environment (datagram arrival, the signal handler, the timer) can act  *)
(* between two statements.  The variable pc is the server's position.     *)
(***************************************************************************)
EXTENDS Integers, Sequences, FiniteSets, TLC

\* ------------------------------------------------------------------ bounds

\* batch_size is drawn from 1..MaxBatch
MaxBatch == 2
\* total number of datagrams the environment delivers in one behaviour
MaxArrivals == 4

\* --------------------------------------------------------------- constants

\* crate constant MIN_REQUEST_LENGTH (use MIN_REQUEST_LENGTH, server.rs:38)
MIN_REQUEST_LENGTH == 1024

\* mio tokens
MESSAGE == "MESSAGE"
STATUS == "STATUS"

\* Tag::NONC.wire_value() and Tag::PAD.wire_value(): the ASCII bytes
\* "NONC" and "PAD\xff"
NONC_wire == <<78, 79, 78, 67>>
PAD_wire == <<80, 65, 68, 255>>
SREP_wire == <<83, 82, 69, 80>>

\* the little-endian u32 words of a well-formed request header
TagCount2 == <<2, 0, 0, 0>>
Offset64 == <<64, 0, 0, 0>>

\* client addresses and nonces (an id stands for the 64 bytes at 0x10..0x50)
Addrs == {"a1", "a2"}

VARIABLES
    batch_size,         \* config.batch_size()
    online_key,         \* Server.online_key
    cert_bytes,         \* Server.cert_bytes
    response_counter,   \* Server.response_counter
    num_bad_requests,   \* Server.num_bad_requests
    keep_running,       \* Server.keep_running (shared with the signal handler)
    requests,           \* Server.requests: Seq of [nonce, src]
    merkle,             \* Server.merkle: the leaves pushed since the last reset
    events,             \* Server.events: tokens of this poll still to be handled
    pc,                 \* position inside process_events
    i,                  \* drain loop index
    done,               \* local `done`
    merkle_root,        \* local `merkle_root`
    srep,               \* local `srep`
    j,                  \* index of the response loop
    sockq,              \* datagrams waiting in the socket, oldest first
    sock_edge,          \* edge-triggered readiness of the socket not yet polled
    timer_armed,        \* the status timer has a timeout set
    sent,               \* every datagram handed to send_to successfully
    recvd,              \* every datagram recv_from returned, in order
    pass_from,          \* Len(recvd) when the current drain pass began
    pass_pending,       \* Len(sockq) when the current drain pass began
    n_arrived,          \* number of datagrams delivered so far
    n_root,             \* number of compute_root calls
    n_srep,             \* number of make_srep calls
    status_log,         \* the status line written during the current call, if any
    n_pass,             \* drain passes begun while handling the current MESSAGE event
    call_from,          \* Len(recvd) when the handling of that event began
    call_err,           \* a recv_from error other than WouldBlock occurred in it
    arg,                \* input of a pure function applied on its own
    result              \* its output

server_vars == <<batch_size, online_key, cert_bytes, response_counter,
                 num_bad_requests, keep_running, requests, merkle, events, pc,
                 i, done, merkle_root, srep, j, sockq, sock_edge, timer_armed,
                 sent, recvd, pass_from, pass_pending, n_pass, call_from,
                 call_err, n_arrived, n_root, n_srep, status_log>>

vars == <<server_vars, arg, result>>

\* ------------------------------------------------------- request validation

\* A received datagram: its length, the four little-endian header words at
\* bytes [0..4], [4..8], [8..12], [12..16], the 64 bytes at 0x10..0x50 (an id)
\* and its source address.  The receive buffer is 65,536 bytes long, so the
\* slices below are always in range.
Datagram(n, tc, off, t1, t2, nonce, src) ==
    [num_bytes |-> n, tag_count |-> tc, offset |-> off, tag1 |-> t1,
     tag2 |-> t2, nonce |-> nonce, src |-> src]

Ok(nonce) == [ok |-> TRUE, err |-> "", nonce |-> nonce]
Err(e) == [ok |-> FALSE, err |-> e, nonce |-> 0]

\* nonce_from_request with the length test off by one (<= for <)
nonce_from_request_le(buf, num_bytes) ==
    IF num_bytes <= MIN_REQUEST_LENGTH
    THEN Err("RequestTooShort")
    ELSE IF buf.tag_count = TagCount2 /\ buf.tag1 = NONC_wire /\ buf.tag2 = PAD_wire
         THEN Ok(buf.nonce)
         ELSE Err("InvalidRequest")

\* Server::nonce_from_request
nonce_from_request(buf, num_bytes) ==
    IF num_bytes < MIN_REQUEST_LENGTH
    THEN Err("RequestTooShort")
    ELSE LET tag_count_is_2 == buf.tag_count = TagCount2
             tag1_is_nonc == buf.tag1 = NONC_wire
             tag2_is_pad == buf.tag2 = PAD_wire
         IN  IF tag_count_is_2 /\ tag1_is_nonc /\ tag2_is_pad
             THEN Ok(buf.nonce)
             ELSE Err("InvalidRequest")

\* ------------------------------------------------------------ Merkle engine

\* SHA-512/256 with the domain bytes 0x00 (leaf) and 0x01 (node), kept symbolic
HashLeaf(nonce) == <<"leaf", nonce>>
HashNode(l, r) == <<"node", l, r>>

RECURSIVE HashLeaves(_)
HashLeaves(leaves) ==
    IF leaves = <<>> THEN <<>>
    ELSE <<HashLeaf(Head(leaves))>> \o HashLeaves(Tail(leaves))

\* one level up: neighbours are hashed in pairs, a lone last node is promoted
RECURSIVE NextLevel(_)
NextLevel(level) ==
    IF Len(level) <= 1 THEN level
    ELSE <<HashNode(level[1], level[2])>> \o NextLevel(SubSeq(level, 3, Len(level)))

RECURSIVE RootOf(_)
RootOf(level) ==
    IF Len(level) <= 1 THEN level ELSE RootOf(NextLevel(level))

RECURSIVE PathOf(_, _)
PathOf(level, idx) ==
    IF Len(level) <= 1 THEN <<>>
    ELSE LET sib == IF idx % 2 = 0 THEN idx + 1 ELSE idx - 1
         IN  (IF sib < Len(level) THEN <<level[sib + 1]>> ELSE <<>>)
             \o PathOf(NextLevel(level), idx \div 2)

\* MerkleTree::push_leaf, compute_root, get_paths, reset
push_leaf(tree, nonce) == Append(tree, nonce)
compute_root(tree) == RootOf(HashLeaves(tree))
get_paths(tree, idx) == PathOf(HashLeaves(tree), idx)
reset(tree) == <<>>

\* ------------------------------------------------------ online key and SREP

RADI == 1000000

\* Ed25519 signing, kept symbolic: deterministic in the key and the message
Sign(key, msg) == <<"sig", key, msg>>

\* OnlineKey::make_srep: the SREP message and its signature
make_srep(key, now, root) ==
    LET body == [RADI |-> RADI, MIDP |-> now, ROOT |-> root]
    IN  [SREP |-> body, SIG |-> Sign(key, body)]

\* ------------------------------------------------------- response assembly

\* write_u32::<LittleEndian>
LE32(n) == <<n % 256, (n \div 256) % 256, (n \div 65536) % 256,
             (n \div 16777216) % 256>>
FromLE32(b) == b[1] + 256 * b[2] + 65536 * b[3] + 16777216 * b[4]

\* Server::make_response
make_response(srep_msg, cert, path, idx) ==
    [SIG |-> srep_msg.SIG, PATH |-> path, SREP |-> srep_msg.SREP,
     CERT |-> cert, INDX |-> LE32(idx)]

\* ------------------------------------------------------------------- state

\* the datagrams the environment sends to the server: the k-th one carries
\* the nonce k and comes from a1 (k odd) or a2 (k even); it is a well-formed
\* request or a rejected one (one byte too short for odd k, tag count 1 for
\* even k)
ValidRequest(nonce, src) ==
    Datagram(MIN_REQUEST_LENGTH, TagCount2, Offset64, NONC_wire, PAD_wire, nonce, src)
ShortRequest(nonce, src) ==
    Datagram(MIN_REQUEST_LENGTH - 1, TagCount2, Offset64, NONC_wire, PAD_wire, nonce, src)
OneTagRequest(nonce, src) ==
    Datagram(MIN_REQUEST_LENGTH, <<1, 0, 0, 0>>, Offset64, NONC_wire, PAD_wire, nonce, src)
Inputs(k) ==
    IF k % 2 = 1
    THEN {ValidRequest(k, "a1"), ShortRequest(k, "a1")}
    ELSE {ValidRequest(k, "a2"), OneTagRequest(k, "a2")}

NoSrep == [SREP |-> <<>>, SIG |-> <<>>]

\* Server::new: counters at zero, keep_running true, the status timer set,
\* the socket and the timer registered edge-triggered, an empty tree and batch
ServerInit ==
    /\ batch_size \in 1..MaxBatch
    /\ online_key = "online_key"
    /\ cert_bytes = <<"cert", "long_term_key", "online_key">>
    /\ response_counter = 0
    /\ num_bad_requests = 0
    /\ keep_running = TRUE
    /\ requests = <<>>
    /\ merkle = <<>>
    /\ events = <<>>
    /\ pc = "idle"
    /\ i = 0
    /\ done = FALSE
    /\ merkle_root = <<>>
    /\ srep = NoSrep
    /\ j = 0
    /\ sockq = <<>>
    /\ sock_edge = FALSE
    /\ timer_armed = TRUE
    /\ sent = <<>>
    /\ recvd = <<>>
    /\ pass_from = 0
    /\ pass_pending = 0
    /\ n_arrived = 0
    /\ n_root = 0
    /\ n_srep = 0
    /\ status_log = <<>>
    /\ n_pass = 0
    /\ call_from = 0
    /\ call_err = FALSE

Init ==
    /\ ServerInit
    /\ arg = <<>>
    /\ result = <<>>

\* ------------------------------------------------------------- environment

\* a client's datagram reaches the socket: an edge for the poller
Arrive(dg) ==
    /\ n_arrived < MaxArrivals
    /\ sockq' = Append(sockq, dg)
    /\ sock_edge' = TRUE
    /\ n_arrived' = n_arrived + 1
    /\ UNCHANGED <<batch_size, online_key, cert_bytes, response_counter,
                   num_bad_requests, keep_running, requests, merkle, events, pc,
                   i, done, merkle_root, srep, j, timer_armed, sent, recvd, n_root, n_srep, status_log, pass_from, pass_pending, n_pass, call_from, call_err,
                   arg, result>>

\* the signal handler stores false into keep_running
Shutdown ==
    /\ keep_running
    /\ keep_running' = FALSE
    /\ UNCHANGED <<batch_size, online_key, cert_bytes, response_counter,
                   num_bad_requests, requests, merkle, events, pc, i, done,
                   merkle_root, srep, j, sockq, sock_edge, timer_armed,
                   sent, recvd, n_arrived, n_root, n_srep,
                   status_log, pass_from, pass_pending, n_pass, call_from, call_err,
                   arg, result>>

\* ---------------------------------------------------------- process_events

Running == pc \notin {"shutdown", "panicked"}

\* the tokens a poll reports, in either order: MESSAGE when the socket has a
\* readiness edge pending, STATUS when the timeout of the status timer has
\* elapsed (`tick`)
ReadyEvents(tick) ==
    LET m == IF sock_edge THEN <<MESSAGE>> ELSE <<>>
        t == IF tick THEN <<STATUS>> ELSE <<>>
    IN  {m \o t, t \o m}

\* self.poll.poll(&mut self.events, self.poll_duration): returns the pending
\* edges, or nothing when the poll duration runs out.  An armed timer may
\* expire while the poll waits.
Poll ==
    /\ pc = "idle"
    /\ \E tick \in {FALSE, timer_armed} :
          /\ events' \in ReadyEvents(tick)
          /\ timer_armed' = (timer_armed /\ ~tick)
    /\ sock_edge' = FALSE
    /\ status_log' = <<>>
    /\ pc' = "events"
    /\ UNCHANGED <<batch_size, online_key, cert_bytes, response_counter,
                   num_bad_requests, keep_running, requests, merkle, i, done,
                   merkle_root, srep, j, sockq, sent, recvd,
                   n_arrived, n_root, n_srep, pass_from, pass_pending, n_pass, call_from, call_err,
                   arg, result>>

\* the event loop is exhausted: process_events returns false, and the caller
\* calls it again
ReturnFalse ==
    /\ pc = "events"
    /\ events = <<>>
    /\ pc' = "idle"
    /\ UNCHANGED <<batch_size, online_key, cert_bytes, response_counter,
                   num_bad_requests, keep_running, requests, merkle, events, i,
                   done, merkle_root, srep, j, sockq, sock_edge, timer_armed,
                   sent, recvd, n_arrived, n_root, n_srep,
                   status_log, pass_from, pass_pending, n_pass, call_from, call_err,
                   arg, result>>

\* MESSAGE => { let mut done = false; 'process_batch: loop {
BeginMessage ==
    /\ pc = "events"
    /\ events # <<>>
    /\ Head(events) = MESSAGE
    /\ events' = Tail(events)
    /\ done' = FALSE
    /\ pc' = "check"
    /\ n_pass' = 0
    /\ call_from' = Len(recvd)
    /\ call_err' = FALSE
    /\ UNCHANGED <<batch_size, online_key, cert_bytes, response_counter,
                   num_bad_requests, keep_running, requests, merkle, i,
                   merkle_root, srep, j, sockq, sock_edge, timer_armed,
                   sent, recvd, n_arrived, n_root, n_srep,
                   status_log, pass_from, pass_pending,
                   arg, result>>

\* StatusTick that does not set the timeout again
StatusTick_NoRearm ==
    /\ pc = "events"
    /\ events # <<>>
    /\ Head(events) = STATUS
    /\ events' = Tail(events)
    /\ status_log' = <<response_counter, num_bad_requests>>
    /\ timer_armed' = FALSE
    /\ UNCHANGED <<batch_size, online_key, cert_bytes, response_counter,
                   num_bad_requests, keep_running, requests, merkle, pc, i, done,
                   merkle_root, srep, j, sockq, sock_edge, sent,
                   recvd, n_arrived, n_root, n_srep, pass_from, pass_pending, n_pass, call_from, call_err,
                   arg, result>>

\* STATUS => { info!(counters); self.timer.set_timeout(status_interval) }
StatusTick ==
    /\ pc = "events"
    /\ events # <<>>
    /\ Head(events) = STATUS
    /\ events' = Tail(events)
    /\ status_log' = <<response_counter, num_bad_requests>>
    /\ timer_armed' = TRUE
    /\ UNCHANGED <<batch_size, online_key, cert_bytes, response_counter,
                   num_bad_requests, keep_running, requests, merkle, pc, i, done,
                   merkle_root, srep, j, sockq, sock_edge, sent,
                   recvd, n_arrived, n_root, n_srep, pass_from, pass_pending, n_pass, call_from, call_err,
                   arg, result>>

\* CtrlcExit with the flag also read between the responses of a batch
CtrlcExit_MidBatch ==
    /\ pc \in {"check", "send"}
    /\ ~keep_running
    /\ pc' = "shutdown"
    /\ UNCHANGED <<batch_size, online_key, cert_bytes, response_counter,
                   num_bad_requests, keep_running, requests, merkle, events, i,
                   done, merkle_root, srep, j, sockq, sock_edge, timer_armed,
                   sent, recvd, n_arrived, n_root, n_srep,
                   status_log, pass_from, pass_pending, n_pass, call_from, call_err,
                   arg, result>>

\* check_ctrlc!(self.keep_running) with the flag cleared: return true
CtrlcExit ==
    /\ pc = "check"
    /\ ~keep_running
    /\ pc' = "shutdown"
    /\ UNCHANGED <<batch_size, online_key, cert_bytes, response_counter,
                   num_bad_requests, keep_running, requests, merkle, events, i,
                   done, merkle_root, srep, j, sockq, sock_edge, timer_armed,
                   sent, recvd, n_arrived, n_root, n_srep,
                   status_log, pass_from, pass_pending, n_pass, call_from, call_err,
                   arg, result>>

\* check_ctrlc! with the flag set: go on to `for i in 0..batch_size`
BeginDrain ==
    /\ pc = "check"
    /\ keep_running
    /\ i' = 0
    /\ pass_from' = Len(recvd)
    /\ pass_pending' = Len(sockq)
    /\ pc' = "drain"
    /\ n_pass' = n_pass + 1
    /\ UNCHANGED <<batch_size, online_key, cert_bytes, response_counter,
                   num_bad_requests, keep_running, requests, merkle, events,
                   done, merkle_root, srep, j, sockq, sock_edge, timer_armed,
                   sent, recvd, n_arrived, n_root, n_srep,
                   status_log, call_from, call_err, arg, result>>

\* self.requests.push((Vec::from(nonce), src_addr))
QueueRequest(batch, nonce, src) == Append(batch, [nonce |-> nonce, src |-> src])

\* the Err branch without the increment
CountBadRequest_None(n) == n

\* self.num_bad_requests += 1
CountBadRequest(n) == n + 1

\* the drain loop running one iteration too many (0..=batch_size)
AfterRecv_Inclusive(idx, size) == IF idx + 1 <= size THEN "drain" ELSE "drained"

\* the position after iteration `idx` of `for i in 0..batch_size`
AfterRecv(idx, size) == IF idx + 1 < size THEN "drain" ELSE "drained"

\* recv_from returned Ok((num_bytes, src_addr)) and the request is accepted
RecvValid ==
    /\ pc = "drain"
    /\ sockq # <<>>
    /\ LET dg == Head(sockq)
           r == nonce_from_request(dg, dg.num_bytes)
       IN  /\ r.ok
           /\ requests' = QueueRequest(requests, r.nonce, dg.src)
           /\ merkle' = push_leaf(merkle, r.nonce)
           /\ recvd' = Append(recvd, dg)
    /\ sockq' = Tail(sockq)
    /\ pc' = AfterRecv(i, batch_size)
    /\ i' = IF pc' = "drain" THEN i + 1 ELSE 0
    /\ UNCHANGED <<batch_size, online_key, cert_bytes, response_counter,
                   num_bad_requests, keep_running, events, done, merkle_root,
                   srep, j, sock_edge, timer_armed, sent, n_arrived,
                   n_root, n_srep, status_log, pass_from, pass_pending, n_pass, call_from, call_err,
                   arg, result>>

\* RecvInvalid that also pushes the rejected datagram's bytes as a leaf
RecvInvalid_PushLeaf ==
    /\ pc = "drain"
    /\ sockq # <<>>
    /\ LET dg == Head(sockq)
           r == nonce_from_request(dg, dg.num_bytes)
       IN  /\ ~r.ok
           /\ num_bad_requests' = CountBadRequest(num_bad_requests)
           /\ merkle' = push_leaf(merkle, dg.nonce)
           /\ recvd' = Append(recvd, dg)
    /\ sockq' = Tail(sockq)
    /\ pc' = AfterRecv(i, batch_size)
    /\ i' = IF pc' = "drain" THEN i + 1 ELSE 0
    /\ UNCHANGED <<batch_size, online_key, cert_bytes, response_counter,
                   keep_running, requests, events, done, merkle_root,
                   srep, j, sock_edge, timer_armed, sent, n_arrived,
                   n_root, n_srep, status_log, pass_from, pass_pending, n_pass, call_from, call_err,
                   arg, result>>

\* recv_from returned Ok and nonce_from_request returned Err(e)
RecvInvalid ==
    /\ pc = "drain"
    /\ sockq # <<>>
    /\ LET dg == Head(sockq)
           r == nonce_from_request(dg, dg.num_bytes)
       IN  /\ ~r.ok
           /\ num_bad_requests' = CountBadRequest(num_bad_requests)
           /\ recvd' = Append(recvd, dg)
    /\ sockq' = Tail(sockq)
    /\ pc' = AfterRecv(i, batch_size)
    /\ i' = IF pc' = "drain" THEN i + 1 ELSE 0
    /\ UNCHANGED <<batch_size, online_key, cert_bytes, response_counter,
                   keep_running, requests, merkle, events, done, merkle_root,
                   srep, j, sock_edge, timer_armed, sent, n_arrived,
                   n_root, n_srep, status_log, pass_from, pass_pending, n_pass, call_from, call_err,
                   arg, result>>

\* recv_from returned Err(WouldBlock): done = true; break
RecvWouldBlock ==
    /\ pc = "drain"
    /\ sockq = <<>>
    /\ done' = TRUE
    /\ i' = 0
    /\ pc' = "drained"
    /\ UNCHANGED <<batch_size, online_key, cert_bytes, response_counter,
                   num_bad_requests, keep_running, requests, merkle, events,
                   merkle_root, srep, j, sockq, sock_edge, timer_armed,
                   sent, recvd, n_arrived, n_root, n_srep,
                   status_log, pass_from, pass_pending, n_pass, call_from, call_err,
                   arg, result>>

\* RecvError that drops what the pass has queued
RecvError_Discard ==
    /\ pc = "drain"
    /\ i' = 0
    /\ pc' = "drained"
    /\ call_err' = TRUE
    /\ requests' = <<>>
    /\ merkle' = reset(merkle)
    /\ UNCHANGED <<batch_size, online_key, cert_bytes, response_counter,
                   num_bad_requests, keep_running, events,
                   done, merkle_root, srep, j, sockq, sock_edge, timer_armed,
                   sent, recvd, n_arrived, n_root, n_srep,
                   status_log, pass_from, pass_pending, n_pass, call_from,
                   arg, result>>

\* recv_from returned another error: error!(..); break.  No datagram is taken.
RecvError ==
    /\ pc = "drain"
    /\ i' = 0
    /\ pc' = "drained"
    /\ call_err' = TRUE
    /\ UNCHANGED <<batch_size, online_key, cert_bytes, response_counter,
                   num_bad_requests, keep_running, requests, merkle, events,
                   done, merkle_root, srep, j, sockq, sock_edge, timer_armed,
                   sent, recvd, n_arrived, n_root, n_srep,
                   status_log, pass_from, pass_pending, n_pass, call_from,
                   arg, result>>

\* BreakEmpty that goes back to the top of the batch loop
BreakEmpty_Continue ==
    /\ pc = "drained"
    /\ requests = <<>>
    /\ done' = FALSE
    /\ pc' = "check"
    /\ UNCHANGED <<batch_size, online_key, cert_bytes, response_counter,
                   num_bad_requests, keep_running, requests, merkle, events, i,
                   merkle_root, srep, j, sockq, sock_edge, timer_armed,
                   sent, recvd, n_arrived, n_root, n_srep, status_log,
                   pass_from, pass_pending, n_pass, call_from, call_err,
                   arg, result>>

\* BreakEmpty missing: an empty batch goes on to compute_root
BreakEmpty_Sign ==
    /\ pc = "drained"
    /\ requests = <<>>
    /\ merkle_root' = compute_root(merkle)
    /\ n_root' = n_root + 1
    /\ pc' = "srep"
    /\ UNCHANGED <<batch_size, online_key, cert_bytes, response_counter,
                   num_bad_requests, keep_running, requests, merkle, events, i,
                   done, srep, j, sockq, sock_edge, timer_armed, sent, recvd,
                   n_arrived, n_srep, status_log, pass_from, pass_pending, n_pass, call_from, call_err,
                   arg, result>>

\* if self.requests.is_empty() { break 'process_batch; }
BreakEmpty ==
    /\ pc = "drained"
    /\ requests = <<>>
    /\ done' = FALSE
    /\ pc' = "events"
    /\ n_pass' = 0
    /\ call_from' = 0
    /\ call_err' = FALSE
    /\ UNCHANGED <<batch_size, online_key, cert_bytes, response_counter,
                   num_bad_requests, keep_running, requests, merkle, events, i,
                   merkle_root, srep, j, sockq, sock_edge, timer_armed,
                   sent, recvd, n_arrived, n_root, n_srep,
                   status_log, pass_from, pass_pending,
                   arg, result>>

\* let merkle_root = self.merkle.compute_root();
ComputeRoot ==
    /\ pc = "drained"
    /\ requests # <<>>
    /\ merkle_root' = compute_root(merkle)
    /\ n_root' = n_root + 1
    /\ pc' = "srep"
    /\ UNCHANGED <<batch_size, online_key, cert_bytes, response_counter,
                   num_bad_requests, keep_running, requests, merkle, events, i,
                   done, srep, j, sockq, sock_edge, timer_armed, sent, recvd, n_arrived, n_srep, status_log, pass_from, pass_pending, n_pass, call_from, call_err,
                   arg, result>>

\* time::get_time(): every reading is later than the one before; the k-th
\* reading is k
get_time == n_srep + 1

\* let srep = self.online_key.make_srep(time::get_time(), &merkle_root);
MakeSrep ==
    /\ pc = "srep"
    /\ srep' = make_srep(online_key, get_time, merkle_root)
    /\ n_srep' = n_srep + 1
    /\ j' = 0
    /\ pc' = "send"
    /\ UNCHANGED <<batch_size, online_key, cert_bytes, response_counter,
                   num_bad_requests, keep_running, requests, merkle, events, i,
                   done, merkle_root, sockq, sock_edge, timer_armed, sent, recvd, n_arrived, n_root, status_log, pass_from, pass_pending, n_pass, call_from, call_err,
                   arg, result>>

\* RtMessage::encode: the fields in wire (ascending tag) order
encode(msg) ==
    << <<"SIG", msg.SIG>>, <<"PATH", msg.PATH>>, <<"SREP", msg.SREP>>,
       <<"CERT", msg.CERT>>, <<"INDX", msg.INDX>> >>

\* ResponseFor with the path of leaf 0 in every response
ResponseFor_FirstPath(idx) ==
    LET paths == get_paths(merkle, 0)
        resp == make_response(srep, cert_bytes, paths, idx)
    IN  [dst |-> requests[idx + 1].src, bytes |-> encode(resp), call |-> n_srep]

\* ResponseFor with an SREP made anew, with a new time reading, per response
ResponseFor_FreshSrep(idx) ==
    LET paths == get_paths(merkle, idx)
        fresh == make_srep(online_key, get_time + idx, merkle_root)
        resp == make_response(fresh, cert_bytes, paths, idx)
    IN  [dst |-> requests[idx + 1].src, bytes |-> encode(resp), call |-> n_srep]

\* the response of the request at position `idx` of the batch
ResponseFor(idx) ==
    LET paths == get_paths(merkle, idx)
        resp == make_response(srep, cert_bytes, paths, idx)
    IN  [dst |-> requests[idx + 1].src, bytes |-> encode(resp), call |-> n_srep]

\* the counter stepping by two
CountResponse_Twice(n) == n + 2

\* self.response_counter.fetch_add(1, Ordering::SeqCst)
CountResponse(n) == n + 1

\* SendOk that walks the batch from its last request to its first
SendOk_Descending ==
    /\ pc = "send"
    /\ j < Len(requests)
    /\ sent' = Append(sent, ResponseFor(Len(requests) - 1 - j))
    /\ response_counter' = CountResponse(response_counter)
    /\ j' = j + 1
    /\ UNCHANGED <<batch_size, online_key, cert_bytes, num_bad_requests,
                   keep_running, requests, merkle, events, pc, i, done,
                   merkle_root, srep, sockq, sock_edge, timer_armed, recvd,
                   n_arrived, n_root, n_srep, status_log, pass_from,
                   pass_pending, n_pass, call_from, call_err, arg, result>>

\* one iteration of `for (i, &(ref nonce, ref src_addr)) in requests.iter().enumerate()`
\* whose send_to returns Ok
SendOk ==
    /\ pc = "send"
    /\ j < Len(requests)
    /\ sent' = Append(sent, ResponseFor(j))
    /\ response_counter' = CountResponse(response_counter)
    /\ j' = j + 1
    /\ UNCHANGED <<batch_size, online_key, cert_bytes, num_bad_requests,
                   keep_running, requests, merkle, events, pc, i, done,
                   merkle_root, srep, sockq, sock_edge, timer_armed, recvd, n_arrived, n_root, n_srep, status_log, pass_from, pass_pending, n_pass, call_from, call_err,
                   arg, result>>

\* send_to returns Err: .expect("send_to failed") panics
SendFail ==
    /\ pc = "send"
    /\ j < Len(requests)
    /\ pc' = "panicked"
    /\ UNCHANGED <<batch_size, online_key, cert_bytes, response_counter,
                   num_bad_requests, keep_running, requests, merkle, events, i,
                   done, merkle_root, srep, j, sockq, sock_edge, timer_armed,
                   sent, recvd, n_arrived, n_root, n_srep,
                   status_log, pass_from, pass_pending, n_pass, call_from, call_err,
                   arg, result>>

\* if done { break 'process_batch; } else the next iteration of the batch loop
AfterBatch(drained) == IF drained THEN "events" ELSE "check"

\* ResetBatch without self.merkle.reset()
ResetBatch_KeepLeaves ==
    /\ pc = "send"
    /\ j = Len(requests)
    /\ requests' = <<>>
    /\ merkle_root' = <<>>
    /\ srep' = NoSrep
    /\ j' = 0
    /\ done' = FALSE
    /\ pc' = AfterBatch(done)
    /\ n_pass' = (IF done THEN 0 ELSE n_pass)
    /\ call_from' = (IF done THEN 0 ELSE call_from)
    /\ call_err' = (IF done THEN FALSE ELSE call_err)
    /\ UNCHANGED <<batch_size, online_key, cert_bytes, response_counter,
                   num_bad_requests, keep_running, merkle, events, i, sockq,
                   sock_edge, timer_armed, sent, recvd, n_arrived, n_root,
                   n_srep, status_log, pass_from, pass_pending,
                   arg, result>>

\* self.merkle.reset(); self.requests.clear(); then the test of `done`
ResetBatch ==
    /\ pc = "send"
    /\ j = Len(requests)
    /\ merkle' = reset(merkle)
    /\ requests' = <<>>
    /\ merkle_root' = <<>>
    /\ srep' = NoSrep
    /\ j' = 0
    /\ done' = FALSE
    /\ pc' = AfterBatch(done)
    /\ n_pass' = (IF done THEN 0 ELSE n_pass)
    /\ call_from' = (IF done THEN 0 ELSE call_from)
    /\ call_err' = (IF done THEN FALSE ELSE call_err)
    /\ UNCHANGED <<batch_size, online_key, cert_bytes, response_counter,
                   num_bad_requests, keep_running, events, i, sockq, sock_edge,
                   timer_armed, sent, recvd, n_arrived, n_root,
                   n_srep, status_log, pass_from, pass_pending,
                   arg, result>>

\* ----------------------------------------------------------- specification

Environment ==
    \/ \E dg \in Inputs(n_arrived + 1) : Arrive(dg)
    \/ Shutdown

ServerStep ==
    \/ Poll
    \/ ReturnFalse
    \/ BeginMessage
    \/ StatusTick
    \/ CtrlcExit
    \/ BeginDrain
    \/ RecvValid
    \/ RecvInvalid
    \/ RecvWouldBlock
    \/ RecvError
    \/ BreakEmpty
    \/ ComputeRoot
    \/ MakeSrep
    \/ SendOk
    \/ SendFail
    \/ ResetBatch

Next == Environment \/ ServerStep

Spec == Init /\ [][Next]_vars

\* the caller calls process_events again and again, the poll returns within
\* its poll_duration and no statement of the handler blocks: the server
\* always takes its next step.  Nothing is assumed of the environment.
FairSpec == Spec /\ WF_vars(ServerStep)

\* ------------------------------------------- nonce_from_request on its own

\* datagrams around the length boundary with right and wrong header words
RequestLengths == {0, 15, 16, MIN_REQUEST_LENGTH - 1, MIN_REQUEST_LENGTH,
                   MIN_REQUEST_LENGTH + 1, 65535}
TagCounts == {TagCount2, <<1, 0, 0, 0>>, <<3, 0, 0, 0>>, <<0, 0, 0, 2>>}
Offsets == {Offset64, <<32, 0, 0, 0>>, <<0, 0, 0, 0>>}
Tags == {NONC_wire, PAD_wire, SREP_wire}
RequestInputs ==
    {Datagram(n, tc, off, t1, t2, nonce, "a1") :
        n \in RequestLengths, tc \in TagCounts, off \in Offsets,
        t1 \in Tags, t2 \in Tags, nonce \in {1, 2}}

InitReq ==
    /\ ServerInit
    /\ arg \in {<<dg>> : dg \in RequestInputs}
    /\ result = <<>>

\* one call of nonce_from_request on the datagram in `arg`
CheckRequest ==
    /\ arg # <<>>
    /\ result = <<>>
    /\ result' = <<nonce_from_request(arg[1], arg[1].num_bytes)>>
    /\ UNCHANGED <<server_vars, arg>>

NextReq == CheckRequest

SpecReq == InitReq /\ [][NextReq]_vars

\* the header words of a request: tag count 2, then NONC, then PAD
RightTags(dg) ==
    dg.tag_count = TagCount2 /\ dg.tag1 = NONC_wire /\ dg.tag2 = PAD_wire

\* C5: nonce_from_request accepts a datagram iff its length is at least
\* MIN_REQUEST_LENGTH, its tag count is 2, its tags are NONC then PAD and its
\* offset field says that NONC is 64 bytes long; the nonce returned is the
\* bytes 0x10..0x50.
C5_AcceptsIffWellFormed ==
    result # <<>> =>
        LET dg == arg[1]
            r == result[1]
        IN  /\ r.ok <=> (/\ dg.num_bytes >= MIN_REQUEST_LENGTH
                         /\ RightTags(dg)
                         /\ dg.offset = Offset64)
            /\ r.ok => r.nonce = dg.nonce

\* C6: a datagram shorter than MIN_REQUEST_LENGTH is rejected as
\* RequestTooShort whatever its content, one of at least that length with a
\* wrong tag count or wrong tags is rejected as InvalidRequest, and a
\* well-formed one of exactly MIN_REQUEST_LENGTH bytes is accepted.
C6_RejectionKinds ==
    result # <<>> =>
        LET dg == arg[1]
            r == result[1]
        IN  /\ dg.num_bytes < MIN_REQUEST_LENGTH =>
                  ~r.ok /\ r.err = "RequestTooShort"
            /\ (dg.num_bytes >= MIN_REQUEST_LENGTH /\ ~RightTags(dg)) =>
                  ~r.ok /\ r.err = "InvalidRequest"
            /\ (/\ dg.num_bytes = MIN_REQUEST_LENGTH
                /\ RightTags(dg)
                /\ dg.offset = Offset64) => r.ok /\ r.nonce = dg.nonce

\* a well-formed request of MIN_REQUEST_LENGTH - 1 bytes has been rejected
C6_Witness ==
    /\ result # <<>>
    /\ arg[1].num_bytes = MIN_REQUEST_LENGTH - 1
    /\ RightTags(arg[1])
    /\ arg[1].offset = Offset64
    /\ result[1].err = "RequestTooShort"

\* ------------------------------------------------------- the batching loop

\* a field of an encoded message
Field(bytes, tag) ==
    LET f == CHOOSE x \in {bytes[k] : k \in 1..Len(bytes)} : x[1] = tag
    IN  f[2]

\* the server is inside a batch: between the start of a drain pass and the
\* reset that ends it
InBatch == pc \in {"drain", "drained", "srep", "send", "panicked"}

\* the number of responses of the current batch handed to send_to so far
SentNow == IF pc \in {"send", "panicked"} THEN j ELSE 0

\* the k-th (from 0) response of the current batch
BatchResponse(k) == sent[Len(sent) - SentNow + k + 1]

Accepted(dg) == nonce_from_request(dg, dg.num_bytes).ok

\* the datagrams accepted in the current drain pass, in arrival order
PassAccepted == SelectSeq(SubSeq(recvd, pass_from + 1, Len(recvd)), Accepted)

\* C1: the i-th datagram accepted in a drain pass is the i-th entry of
\* `requests` and the i-th leaf of the Merkle engine; the i-th response of the
\* batch goes to its source with INDX = i and PATH = get_paths(i); and the
\* batch is reset only when each of its requests has had exactly one response
\* (outside a batch both structures are empty and every accepted datagram has
\* been answered once).
C1_BatchingInvariant ==
    /\ InBatch =>
          /\ Len(requests) = Len(PassAccepted)
          /\ Len(merkle) = Len(PassAccepted)
          /\ \A k \in 1..Len(requests) :
                /\ requests[k].nonce = PassAccepted[k].nonce
                /\ requests[k].src = PassAccepted[k].src
                /\ merkle[k] = PassAccepted[k].nonce
    /\ \A k \in 0..(SentNow - 1) :
          /\ BatchResponse(k).dst = requests[k + 1].src
          /\ FromLE32(Field(BatchResponse(k).bytes, "INDX")) = k
          /\ Field(BatchResponse(k).bytes, "PATH") = get_paths(merkle, k)
    /\ Len(sent) + (Len(requests) - SentNow) = Len(SelectSeq(recvd, Accepted))
    /\ ~InBatch => requests = <<>> /\ merkle = <<>>

\* a batch of two requests from different clients, both answered, before the
\* reset
C1_Witness ==
    /\ pc = "send"
    /\ Len(requests) = 2
    /\ j = 2
    /\ requests[1].src # requests[2].src

\* C2: between two socket reads, and at entry and exit of process_events, the
\* batch vector is as long as the number of leaves of the Merkle engine.
C2_BatchLenIsLeafCount == Len(requests) = Len(merkle)

\* a second batch is being drained after a first one was reset
C2_Witness ==
    /\ pc = "drain"
    /\ Len(requests) = 1
    /\ Len(sent) > 0

\* the INDX of a response, as a number
IndexOf(r) == FromLE32(Field(r.bytes, "INDX"))

\* the positions in `sent` of the responses made from the c-th make_srep call
ResponsesOfCall(c) == {a \in 1..Len(sent) : sent[a].call = c}

\* the number of batches of which a first response (INDX = 0) has been sent
BatchesAnswered == Cardinality({a \in 1..Len(sent) : IndexOf(sent[a]) = 0})

\* C3: every non-empty batch has one compute_root call and one make_srep call
\* (one time reading); the responses of a batch carry the same SREP, SIG and
\* CERT bytes, those of that one make_srep call, and distinct INDX values,
\* which are exactly 0..n-1 once the n requests of the batch are answered.
C3_OneSignaturePerBatch ==
    /\ n_root = n_srep + (IF pc = "srep" THEN 1 ELSE 0)
    /\ n_srep = BatchesAnswered
                  + (IF pc \in {"send", "panicked"} /\ j = 0 THEN 1 ELSE 0)
    /\ \A k \in 0..(SentNow - 1) :
          /\ Field(BatchResponse(k).bytes, "SREP") = srep.SREP
          /\ Field(BatchResponse(k).bytes, "SIG") = srep.SIG
          /\ Field(BatchResponse(k).bytes, "CERT") = cert_bytes
          /\ BatchResponse(k).call = n_srep
    /\ \A a, b \in 1..Len(sent) :
          sent[a].call = sent[b].call =>
             /\ Field(sent[a].bytes, "SREP") = Field(sent[b].bytes, "SREP")
             /\ Field(sent[a].bytes, "SIG") = Field(sent[b].bytes, "SIG")
             /\ Field(sent[a].bytes, "CERT") = Field(sent[b].bytes, "CERT")
             /\ a # b => IndexOf(sent[a]) # IndexOf(sent[b])
    /\ \A c \in 1..n_srep :
          {IndexOf(sent[a]) : a \in ResponsesOfCall(c)}
             = 0..(Cardinality(ResponsesOfCall(c)) - 1)
    /\ (pc = "send" /\ j = Len(requests)) =>
          Cardinality(ResponsesOfCall(n_srep)) = Len(requests)

\* the second batch, of two requests, has been answered
C3_Witness ==
    /\ pc = "send"
    /\ n_srep = 2
    /\ Len(requests) = 2
    /\ j = 2

\* a well-formed request as the specification defines it
WellFormed(dg) ==
    /\ dg.num_bytes >= MIN_REQUEST_LENGTH
    /\ RightTags(dg)
    /\ dg.offset = Offset64

PendingAtStart == SubSeq(recvd \o sockq, pass_from + 1, pass_from + pass_pending)

\* the batch entry that a datagram makes
EntryOf(dg) == [nonce |-> dg.nonce, src |-> dg.src]

RECURSIVE Entries(_)
Entries(dgs) ==
    IF dgs = <<>> THEN <<>> ELSE <<EntryOf(Head(dgs))>> \o Entries(Tail(dgs))

\* a drain pass is over and its batch is not reset yet
PassOver == pc \in {"drained", "srep", "send"}

\* the drain pass that is over was ended by WouldBlock or by the loop bound,
\* not by a recv_from error
NoRecvError == done \/ Len(recvd) - pass_from = batch_size

\* every response follows the one before it in the same batch, with the next
\* INDX, or opens a batch of a later make_srep call with INDX 0; no batch has
\* more than batch_size responses
BatchesInOrder ==
    /\ Len(sent) > 0 => IndexOf(sent[1]) = 0
    /\ \A a \in 1..(Len(sent) - 1) :
          \/ /\ sent[a + 1].call = sent[a].call
             /\ IndexOf(sent[a + 1]) = IndexOf(sent[a]) + 1
          \/ /\ sent[a + 1].call > sent[a].call
             /\ IndexOf(sent[a + 1]) = 0
    /\ \A c \in 1..n_srep : Cardinality(ResponsesOfCall(c)) <= batch_size

\* C8 as stated: the batch never holds more than batch_size entries, and
\* when more than batch_size valid datagrams were pending at the start of a
\* drain pass, the batch of that pass is the first batch_size of them, in
\* arrival order, answered under one SREP; later ones are answered under a
\* later make_srep call with INDX restarting at 0.  (Stated for the passes
\* that no recv_from error cuts short and that queue at least one request.)
C8_FirstValidFillTheBatch ==
    LET valid == SelectSeq(PendingAtStart, WellFormed)
    IN  /\ Len(requests) <= batch_size
        /\ (/\ PassOver
            /\ NoRecvError
            /\ requests # <<>>
            /\ Len(valid) > batch_size) =>
              requests = Entries(SubSeq(valid, 1, batch_size))
        /\ BatchesInOrder

\* C8 amended: the batch never holds more than batch_size entries, and when
\* more than batch_size datagrams were pending at the start of a drain pass,
\* the first batch_size of them are valid and no recv_from error cut the pass
\* short, the batch of that pass is those batch_size requests, in arrival
\* order, answered under one SREP; later ones are answered under a later
\* make_srep call with INDX restarting at 0.
C8_SaturatedBatch ==
    LET first == SubSeq(PendingAtStart, 1, batch_size)
    IN  /\ Len(requests) <= batch_size
        /\ (/\ PassOver
            /\ pass_pending > batch_size
            /\ \A k \in 1..batch_size : WellFormed(first[k])
            /\ NoRecvError) =>
              /\ requests = Entries(first)
              /\ sockq = SubSeq(PendingAtStart, batch_size + 1, pass_pending)
                           \o SubSeq(sockq, pass_pending - batch_size + 1, Len(sockq))
        /\ BatchesInOrder

\* three valid requests were pending, the batch of two is answered under one
\* SREP and the third is still in the socket
C8_Witness ==
    /\ pc = "send"
    /\ batch_size = 2
    /\ pass_pending = 3
    /\ \A k \in 1..3 : WellFormed(PendingAtStart[k])
    /\ Len(requests) = 2
    /\ j = 2
    /\ sent[1].call = sent[2].call
    /\ Len(sockq) = 1

\* the third of them has been answered by a second make_srep call, INDX 0
C8_SecondBatchReached ==
    /\ batch_size = 2
    /\ Len(sent) = 3
    /\ sent[1].call = 1
    /\ sent[2].call = 1
    /\ sent[3].call = 2
    /\ IndexOf(sent[3]) = 0

\* the request at position k (from 1) of the current batch has had its response
Answered(k) == k <= SentNow

\* C9: when send_to fails for one request of a batch, the server keeps
\* running and every other request of the batch still has its response
\* sent.
C9_SendFailureTolerated ==
    \A f \in 1..Len(requests) :
        (pc = "panicked" /\ f = j + 1) =>
            /\ Running
            /\ \A k \in 1..Len(requests) : k = f \/ Answered(k)

\* C10: once keep_running is false, the repeated calls of process_events
\* lead to a call that returns true, whether or not a datagram arrives (a
\* server that send_to has stopped is set aside).
C10_ShutdownNoticed == (~keep_running) ~> (pc \in {"shutdown", "panicked"})

\* ----------------------------------------------------- shutdown and status

\* a step of the drain loop: one call of recv_from, whatever it returns
RecvFromStep == pc = "drain" /\ (pc' # pc \/ i' # i)

\* C11: once keep_running is false the server reads the socket no more: no
\* drain pass begins, and a recv_from made with the flag cleared (the call
\* under way when the flag was stored) is not followed by another recv_from
\* of the same pass.
C11_NoReadAfterShutdown ==
    [][~keep_running =>
          /\ ~(pc = "check" /\ pc' = "drain")
          /\ RecvFromStep => pc' # "drain"]_vars

\* process_events returns true
ReturnsTrue == pc # "shutdown" /\ pc' = "shutdown"

\* C12: the step that makes process_events return true is taken where
\* `requests` and the Merkle engine are empty, never between the responses
\* of a batch; when the call has returned true every request accepted so far
\* has had its response sent.
C12_ShutdownBetweenBatches ==
    /\ [][ReturnsTrue =>
             /\ pc = "check"
             /\ requests = <<>> /\ merkle = <<>>
             /\ UNCHANGED <<requests, merkle, sent, response_counter>>]_vars
    /\ [](pc = "shutdown" =>
             /\ requests = <<>>
             /\ merkle = <<>>
             /\ Len(sent) = Len(SelectSeq(recvd, Accepted)))

\* the call returned true after a batch of two was answered in full, with a
\* further datagram left in the socket
C12_Witness ==
    /\ pc = "shutdown"
    /\ Len(sent) = 2
    /\ sent[1].call = sent[2].call
    /\ sockq # <<>>

\* the handling of a status timer event
StatusStep == pc = "events" /\ events # <<>> /\ Head(events) = STATUS /\ events' = Tail(events)

\* a timeout of the status timer is set, or its event waits to be handled
TickPending == timer_armed \/ \E k \in 1..Len(events) : events[k] = STATUS

\* C13: the handling of a status timer event reports the current
\* response_counter and num_bad_requests, sets the timer again, leaves the
\* counters, `requests`, the Merkle engine, the keys and the certificate
\* unchanged and sends nothing; the timer never stays unset, so ticks recur.
C13_StatusTick ==
    /\ [][StatusStep =>
             /\ status_log' = <<response_counter, num_bad_requests>>
             /\ timer_armed'
             /\ UNCHANGED <<response_counter, num_bad_requests, requests,
                            merkle, online_key, cert_bytes, sent, sockq,
                            recvd, keep_running>>]_vars
    /\ []TickPending

\* a status line with one response and one rejected datagram was written and
\* the timer is set again
C13_Witness ==
    /\ status_log = <<1, 1>>
    /\ timer_armed
    /\ pc = "events"

\* ------------------------------------------------ configuration validation

\* KmsProtection: the seed is in the clear, or it is a blob encrypted under a
\* KMS key
KmsProtections == {"Plaintext", "AwsKmsEnvelope"}

\* values of the configuration fields: port is a u16, batch_size a u8, the
\* seed a byte vector (all zero here), the interface a string given as its
\* dot-separated parts (<<>> is the empty string)
Ports == {0, 2002, 65535}
BatchSizes == {0, 1, 64, 65, 255}
SeedLengths == {0, 31, 32, 33}
Interfaces == {<<>>, <<"127", "0", "0", "1">>, <<"256", "0", "0", "1">>,
               <<"10", "0", "0">>, <<"eth0">>, <<"[::1]">>, <<"::1">>}

Seed(n) == [k \in 1..n |-> 0]

Configs ==
    [port : Ports, interface : Interfaces, seed : {Seed(n) : n \in SeedLengths},
     kms_protection : KmsProtections, batch_size : BatchSizes]

\* the number a decimal string stands for, -1 when it is not a number
DecimalValue(str) ==
    CASE str = "0" -> 0
      [] str = "1" -> 1
      [] str = "10" -> 10
      [] str = "127" -> 127
      [] str = "256" -> 256
      [] OTHER -> -1

\* <SocketAddr as FromStr>: four decimal octets and a port, or an IPv6
\* address in brackets and a port
ParseSocketAddr(host, port) ==
    LET v4 == /\ Len(host) = 4
              /\ \A k \in 1..4 : DecimalValue(host[k]) \in 0..255
        v6 == host = <<"[::1]">>
    IN  (v4 \/ v6) /\ port \in 0..65535

\* ServerConfig::udp_socket_addr: format!("{}:{}", interface, port).parse()
udp_socket_addr(cfg) ==
    IF ParseSocketAddr(cfg.interface, cfg.port)
    THEN [ok |-> TRUE, err |-> ""]
    ELSE [ok |-> FALSE, err |-> "InvalidConfiguration"]

\* is_valid_config with the KMS seed test `< 32` for `<= 32`
is_valid_config_lt(cfg) ==
    LET v1 == cfg.port # 0
        v2 == v1 /\ cfg.interface # <<>>
        v3 == v2 /\ cfg.seed # <<>>
        v4 == v3 /\ ~(cfg.kms_protection = "Plaintext" /\ Len(cfg.seed) # 32)
        v5 == v4 /\ ~(cfg.kms_protection # "Plaintext" /\ Len(cfg.seed) < 32)
        v6 == v5 /\ ~(cfg.batch_size < 1 \/ cfg.batch_size > 64)
    IN  IF v6 THEN udp_socket_addr(cfg).ok ELSE FALSE

\* is_valid_config: is_valid starts true, every failed test clears it, and
\* the socket address is tried only while it is still true
is_valid_config(cfg) ==
    LET v1 == cfg.port # 0
        v2 == v1 /\ cfg.interface # <<>>
        v3 == v2 /\ cfg.seed # <<>>
        v4 == v3 /\ ~(cfg.kms_protection = "Plaintext" /\ Len(cfg.seed) # 32)
        v5 == v4 /\ ~(cfg.kms_protection # "Plaintext" /\ Len(cfg.seed) <= 32)
        v6 == v5 /\ ~(cfg.batch_size < 1 \/ cfg.batch_size > 64)
    IN  IF v6 THEN udp_socket_addr(cfg).ok ELSE FALSE

InitCfg ==
    /\ ServerInit
    /\ arg \in {<<cfg>> : cfg \in Configs}
    /\ result = <<>>

\* one call of is_valid_config on the configuration in `arg`
ValidateConfig ==
    /\ arg # <<>>
    /\ result = <<>>
    /\ result' = <<is_valid_config(arg[1])>>
    /\ UNCHANGED <<server_vars, arg>>

NextCfg == ValidateConfig

SpecCfg == InitCfg /\ [][NextCfg]_vars

\* the rules of a valid configuration, each on its own
PortSet(cfg) == cfg.port # 0
InterfaceGiven(cfg) == Len(cfg.interface) > 0
SeedGiven(cfg) == Len(cfg.seed) > 0
SeedLengthFits(cfg) ==
    IF cfg.kms_protection = "Plaintext" THEN Len(cfg.seed) = 32
    ELSE Len(cfg.seed) > 32
BatchSizeInRange(cfg) == cfg.batch_size \in 1..64
AddressUsable(cfg) == ParseSocketAddr(cfg.interface, cfg.port)

RecvErrStep == RecvFromStep /\ recvd' = recvd

\* the drain pass that is over stopped before the loop bound: recv_from
\* returned an error
ErrorEnded == PassOver /\ Len(recvd) - pass_from < batch_size

\* the server leaves the response loop without a panic
BatchDone == pc = "send" /\ pc' \notin {"send", "panicked"}

\* C15: a recv_from error ends the drain pass and leaves `requests` and the
\* Merkle engine as they are; the batch is left only when each queued request
\* has had its response, and then the batch loop ends after WouldBlock and
\* starts its next iteration after another error; an empty batch ends the
\* loop; outside a batch nothing is queued and every accepted datagram has
\* been answered.
C15_RecvErrorKeepsBatch ==
    /\ [][RecvErrStep =>
             /\ pc' = "drained"
             /\ UNCHANGED <<requests, merkle, sent, response_counter>>]_vars
    /\ [][BatchDone =>
             /\ j = Len(requests)
             /\ \A k \in 1..Len(requests) :
                   sent[Len(sent) - Len(requests) + k].dst = requests[k].src
             /\ pc' = (IF done THEN "events" ELSE "check")
             /\ requests' = <<>>]_vars
    /\ [][(pc = "drained" /\ requests = <<>> /\ pc' # pc) =>
             pc' = "events" /\ UNCHANGED <<sent, n_root, n_srep>>]_vars
    /\ [](~InBatch =>
             /\ requests = <<>>
             /\ Len(sent) = Len(SelectSeq(recvd, Accepted)))

\* with batch_size 2 a pass that queued one request was ended by an error
\* other than WouldBlock, and the request has been answered
C15_Witness ==
    /\ pc = "send"
    /\ batch_size = 2
    /\ ErrorEnded
    /\ ~done
    /\ Len(requests) = 1
    /\ j = 1

\* ------------------------------------------------------ response counter

\* C16: response_counter never decreases; it grows by one exactly in the
\* step in which send_to has handed a response to the socket, and stays as
\* it is when send_to fails; so it always equals the number of responses
\* emitted since construction.
C16_CounterIsResponsesSent ==
    /\ [][/\ response_counter' \in {response_counter, response_counter + 1}
          /\ (response_counter' = response_counter + 1) <=>
                (Len(sent') = Len(sent) + 1)
          /\ Len(sent') >= Len(sent)]_vars
    /\ [](response_counter = Len(sent))

\* the second send_to of a batch failed after the first one succeeded: the
\* counter is one
C16_Witness ==
    /\ pc = "panicked"
    /\ Len(requests) = 2
    /\ j = 1
    /\ response_counter = 1
    /\ Len(sent) = 1

\* -------------------------------------------------- edge-triggered reading

\* the handling of a MESSAGE event ends without a return of true
MessageHandled == pc \in {"drained", "send"} /\ pc' = "events"

\* C17: when the handling of a socket-readiness event ends without shutdown
\* and without a recv_from error, no datagram is left in the socket without
\* a readiness edge pending for it.
C17_SocketDrained ==
    [][(MessageHandled /\ NoRecvError) => (sockq' = <<>> \/ sock_edge')]_vars

\* ------------------------------------------------ step order in a batch

\* the nonces of the batch, in order
RECURSIVE Nonces(_)
Nonces(batch) ==
    IF batch = <<>> THEN <<>> ELSE <<Head(batch).nonce>> \o Nonces(Tail(batch))

\* C18: compute_root is called when the drain pass is over, make_srep after
\* compute_root, on its root; the responses are sent after make_srep, in
\* ascending index order from 0; reset and clear come after the last send;
\* between compute_root and the reset nothing is received and no leaf is
\* pushed, so the signed root is the root of the leaves of the requests
\* being answered.
C18_StepOrder ==
    /\ [][/\ n_root' # n_root =>
                pc = "drained" /\ pc' = "srep" /\ n_root = n_srep
          /\ n_srep' # n_srep =>
                /\ pc = "srep" /\ pc' = "send" /\ j' = 0
                /\ n_root = n_srep + 1
                /\ srep'.SREP.ROOT = merkle_root
          /\ Len(sent') # Len(sent) =>
                /\ pc = "send" /\ n_root = n_srep
                /\ IndexOf(sent'[Len(sent')]) = j
                /\ sent'[Len(sent')].call = n_srep
                /\ j' = j + 1
          /\ (requests # <<>> /\ requests' = <<>>) =>
                pc = "send" /\ j = Len(requests) /\ merkle' = <<>>
          /\ (pc \in {"srep", "send"} /\ requests' # <<>>) =>
                UNCHANGED <<recvd, merkle, requests, merkle_root>>]_vars
    /\ [](pc \in {"srep", "send", "panicked"} =>
             /\ merkle = Nonces(requests)
             /\ requests # <<>>)
    /\ [](pc = "srep" => merkle_root = compute_root(merkle))
    /\ [](pc \in {"send", "panicked"} =>
             /\ srep.SREP.ROOT = compute_root(merkle)
             /\ srep.SIG = Sign(online_key, srep.SREP))

\* a batch of two has been answered, INDX 0 then 1, while a datagram that
\* arrived meanwhile waits in the socket
C18_Witness ==
    /\ pc = "send"
    /\ Len(requests) = 2
    /\ j = 2
    /\ IndexOf(sent[Len(sent) - 1]) = 0
    /\ IndexOf(sent[Len(sent)]) = 1
    /\ sockq # <<>>

\* ---------------------------------------------------------- empty batches

\* a call of compute_root, make_srep, or get_paths and send_to
QueryStep == n_root' # n_root \/ n_srep' # n_srep \/ Len(sent') # Len(sent)

\* C19: compute_root, make_srep, get_paths and send_to run only with at
\* least one request queued and one leaf in the Merkle engine; a drain pass
\* that queued nothing ends the batch loop with no signature made and no
\* datagram sent.
C19_NoQueryWhenEmpty ==
    /\ [][QueryStep => (requests # <<>> /\ merkle # <<>>)]_vars
    /\ [][(pc = "drained" /\ Len(PassAccepted) = 0 /\ pc' # pc) =>
             /\ pc' = "events"
             /\ UNCHANGED <<n_root, n_srep, sent, response_counter, merkle,
                            requests>>]_vars
    /\ [](pc \in {"srep", "send", "panicked"} => Len(merkle) > 0)

\* a drain pass that read two rejected datagrams and nothing else has ended
\* the batch loop: nothing was signed or sent
C19_Witness ==
    /\ pc = "events"
    /\ Len(recvd) = 2
    /\ pass_from = 0
    /\ num_bad_requests = 2
    /\ n_root = 0
    /\ n_srep = 0
    /\ sent = <<>>

\* ------------------------------------------------------------ termination

\* ceil(a / b)
CeilDiv(a, b) == (a + b - 1) \div b

\* the datagrams the handling of the current MESSAGE event can read: those
\* pending when it began and those that arrived since
Avail == Len(recvd) + Len(sockq) - call_from

\* the batch loop starts an iteration after the first one
NextIteration == pc = "check" /\ pc' = "drain" /\ n_pass >= 1

\* C20 as stated: the handling of a MESSAGE event makes at most
\* ceil(pending / batch_size) + 1 drain passes.
C20_PassBound == n_pass <= CeilDiv(Avail, batch_size) + 1

\* C20 amended: an iteration of the batch loop follows another one only when
\* that one queued a valid request; a drain pass calls recv_from at most
\* batch_size times; the handling of a MESSAGE event makes at most
\* pending + 1 drain passes, and at most ceil(pending / batch_size) + 1 when
\* no recv_from error other than WouldBlock occurs; and process_events
\* returns false only when every event of the poll has been handled.
C20_BoundedPasses ==
    /\ [][NextIteration => Len(PassAccepted) >= 1]_vars
    /\ [](pc = "drain" => i < batch_size)
    /\ [](n_pass <= Avail + 1)
    /\ [](~call_err => C20_PassBound)
    /\ [][(pc = "events" /\ pc' = "idle") => events = <<>>]_vars

\* with batch_size 2 and two datagrams the second drain pass ended at once by
\* WouldBlock, no recv_from error occurred, and the status event of the same
\* poll is still to be handled
C20_Witness ==
    /\ batch_size = 2
    /\ pc = "drained"
    /\ done
    /\ requests = <<>>
    /\ n_pass = 2
    /\ Avail = 2
    /\ ~call_err
    /\ events = <<STATUS>>

====
